---- MODULE Spec2Model ----
(***************************************************************************)
(* Model of create-icons.py: the renderer create_receipt_icon(size) and    *)
(* the module-level driver that creates public/icons and writes            *)
(* icon-192.png and icon-512.png.                                          *)
(*                                                                         *)
(* An image is the canvas size together with the ordered list of drawing   *)
(* operations applied to it; a pixel's colour is the colour of the last    *)
(* operation that covers it (PixelAt).  The filesystem, the installed      *)
(* fonts and the ability to create or write files form the environment.    *)
(***************************************************************************)
EXTENDS Integers, Sequences, FiniteSets, TLC

VARIABLES
    pc,         \* position of the module-level driver (or of the test harness)
    rpc,        \* position inside create_receipt_icon ("idle" when not running)
    size,       \* argument of the running create_receipt_icon call
    img,        \* local img / draw of create_receipt_icon
    i,          \* loop variable of the receipt-line loop
    font,       \* local font
    bbox,       \* local bbox
    text_xy,    \* locals text_x, text_y
    icon_192,   \* module variable icon_192
    icon_512,   \* module variable icon_512
    publicDir,  \* filesystem: the directory public
    iconsDir,   \* filesystem: the path public/icons
    file192,    \* filesystem: public/icons/icon-192.png
    file512,    \* filesystem: public/icons/icon-512.png
    stdout,     \* what the process has printed
    err,        \* the uncaught exception that ended the process, if any
    env,        \* environment: may directories be created, files written, is arial.ttf installed
    glyph,      \* environment: the shape of the glyph "R" in the host's fonts
    run,        \* number of the current execution of the script
    log,        \* history: the driver steps attempted in the current execution
    runs,       \* history: how each finished execution ended
    start,      \* history: the filesystem when the current execution began
    arg,        \* harness: the size under test
    first,      \* harness: result of the first call
    second      \* harness: result of the second call

vars == <<pc, rpc, size, img, i, font, bbox, text_xy, icon_192, icon_512,
          publicDir, iconsDir, file192, file512, stdout, err, env, glyph,
          run, log, runs, start, arg, first, second>>

locals  == <<size, img, i, font, bbox, text_xy>>
icons   == <<icon_192, icon_512>>
fsys    == <<publicDir, iconsDir, file192, file512>>
harness == <<arg, first, second>>
history == <<run, log, runs, start>>

----------------------------------------------------------------------------
(* Bounds of the model *)

MaxSize == 512        \* sizes 1..MaxSize are rendered by the harness
MaxRuns == 2          \* executions of the script in one behaviour

----------------------------------------------------------------------------
(* Constants of the program *)

REF_SIZE   == 192     \* scale = size / 192
SIZE_SMALL == 192     \* create_receipt_icon(192)
SIZE_LARGE == 512     \* create_receipt_icon(512)
NUM_LINES  == 6       \* range(6)
SHORT_LINE == 4       \* if i == 4
SHADOW_OFFSET == 2    \* (text_x + 2, text_y + 2)
DEFAULT_FONT_PX == 10 \* pixel size of ImageFont.load_default()

BACKGROUND   == <<26, 26, 30, 255>>
PAPER_FILL   == <<255, 255, 255, 255>>
PAPER_BORDER == <<200, 200, 200, 255>>
LINE_FILL    == <<26, 26, 30, 255>>
BUTTON_FILL  == <<0, 122, 255, 255>>
SHADOW_FILL  == <<0, 0, 0, 100>>
TEXT_FILL    == <<0, 122, 255, 255>>
NoColor      == <<>>                    \* outline=None
COMPLETION_MESSAGE == "Icons created successfully!"

----------------------------------------------------------------------------
(* Arithmetic of create_receipt_icon *)

(* int(k * scale) with scale = size / 192.  For size > 0 the binary64      *)
(* value of k * (size / 192) truncates to the same integer as the exact    *)
(* quotient k*size/192 (compared exhaustively for every k used below and   *)
(* every size up to 2,000,000).                                            *)
Scaled(k, sz) == (k * sz) \div REF_SIZE

RECURSIVE CeilPow2(_, _)
(* The least power of two p * 2^j that is >= k. *)
CeilPow2(k, p) == IF p >= k THEN p ELSE CeilPow2(k, 2 * p)

(* int(n * c) for an integer n >= 0 and the binary64 literal c nearest to  *)
(* num/den, whose stored value is num/den - (errNum/errDen) * 2^-53.       *)
(* When n*num/den is not an integer the product is far from an integer and *)
(* truncation gives the exact floor.  When it is an integer k, the exact   *)
(* product k - n*(errNum/errDen)*2^-53 rounds (to nearest, ties to even)   *)
(* up to k only if it is within half a unit in the last place below k,     *)
(* that is 2*n*errNum <= errDen * P, P the least power of two >= k;        *)
(* otherwise it stays below k and truncates to k - 1.                      *)
FloatMulTrunc(n, num, den, errNum, errDen) ==
    LET exact == (n * num) \div den
    IN  IF n = 0 \/ (n * num) % den # 0 THEN exact
        ELSE IF 2 * n * errNum <= errDen * CeilPow2(exact, 1) THEN exact
        ELSE exact - 1

Times1_2_Rounded(n) == (12 * n + 5) \div 10

Times1_2(n) == FloatMulTrunc(n, 6, 5, 2, 5)     \* int(n * 1.2)
Times0_6(n) == FloatMulTrunc(n, 3, 5, 1, 5)     \* int(n * 0.6)
Times0_7(n) == FloatMulTrunc(n, 7, 10, 2, 5)    \* int(n * 0.7)

paper_margin_Thin(sz) == Scaled(4, sz)

paper_margin(sz) == Scaled(24, sz)
paper_width(sz)  == sz - 2 * paper_margin(sz)
paper_height(sz) == Times1_2(paper_width(sz))
paper_y(sz)      == (sz - paper_height(sz)) \div 2

line_spacing_Wide(sz) == Scaled(26, sz)

line_spacing(sz) == Scaled(16, sz)
line_margin(sz)  == Scaled(12, sz)
line_start(sz)   == paper_y(sz) + Scaled(20, sz)
line_y(sz, k)    == line_start(sz) + k * line_spacing(sz)

(* The condition of the break in the line loop. *)
StopCondition(sz, k) ==
    line_y(sz, k) > paper_y(sz) + paper_height(sz) - Scaled(40, sz)

FullLineWidth_Overhang(sz) == paper_width(sz) + 2 * line_margin(sz)

FullLineWidth(sz) == paper_width(sz) - 2 * line_margin(sz)

line_width_LastShort(sz, k) ==
    IF k = NUM_LINES - 1 THEN Times0_6(FullLineWidth(sz)) ELSE FullLineWidth(sz)

line_width(sz, k) ==
    IF k = SHORT_LINE THEN Times0_6(FullLineWidth(sz)) ELSE FullLineWidth(sz)

button_width(sz)  == Times0_7(paper_width(sz))
button_height(sz) == Scaled(20, sz)
button_x(sz)      == paper_margin(sz) + (paper_width(sz) - button_width(sz)) \div 2
button_y(sz)      == paper_y(sz) + paper_height(sz) - Scaled(35, sz)

font_size(sz) == Scaled(48, sz)

(* Boxes are <<x0, y0, x1, y1>>, both corners included, as ImageDraw takes them. *)
PaperBox(sz) ==
    <<paper_margin(sz), paper_y(sz),
      paper_margin(sz) + paper_width(sz), paper_y(sz) + paper_height(sz)>>

LineBox(sz, k) ==
    <<paper_margin(sz) + line_margin(sz), line_y(sz, k),
      paper_margin(sz) + line_margin(sz) + line_width(sz, k),
      line_y(sz, k) + Scaled(2, sz)>>

ButtonBox(sz) ==
    <<button_x(sz), button_y(sz),
      button_x(sz) + button_width(sz), button_y(sz) + button_height(sz)>>

----------------------------------------------------------------------------
(* Images and drawing *)

NoImage == [mode |-> "none", w |-> 0, h |-> 0, ops |-> <<>>]
NoFont  == [kind |-> "none", px |-> 0]
NoBox   == <<0, 0, 0, 0>>

NewImage_Reused(sz) == [mode |-> "RGBA", w |-> sz, h |-> sz, ops |-> img.ops]

(* Image.new('RGBA', (size, size), (26, 26, 30, 255)) *)
NewImage(sz) == [mode |-> "RGBA", w |-> sz, h |-> sz, ops |-> <<>>]

(* draw.rectangle(box, fill=..., outline=...) *)
RectOp(box, fill, outline) ==
    [kind |-> "rect", at |-> <<box[1], box[2]>>, box |-> box,
     fill |-> fill, outline |-> outline, font |-> NoFont]

(* draw.text(xy, "R", fill=..., font=...): the glyph's ink lies in the box *)
(* that textbbox reports for the font, moved to xy.                        *)
TextOp(xy, bb, fill, f) ==
    [kind |-> "text", at |-> xy,
     box |-> <<xy[1] + bb[1], xy[2] + bb[2], xy[1] + bb[3], xy[2] + bb[4]>>,
     fill |-> fill, outline |-> NoColor, font |-> f]

Draw(image, op) == [image EXCEPT !.ops = Append(@, op)]

(* ImageFont.truetype("arial.ttf", font_size) / ImageFont.load_default() *)
TrueTypeFont(px) == [kind |-> "truetype", px |-> px]
DefaultFont      == [kind |-> "default", px |-> DEFAULT_FONT_PX]

(* The shapes the glyph "R" may have in the host's fonts, in eighths of    *)
(* the font's pixel size: left and top bearing, ink width and ink height.  *)
GlyphShapes ==
    { [l |-> 0, t |-> 0, w |-> 6, h |-> 8],
      [l |-> 1, t |-> 2, w |-> 5, h |-> 6] }

(* draw.textbbox((0, 0), "R", font=font) *)
TextBBox(f, shape) ==
    LET l == (f.px * shape.l) \div 8
        t == (f.px * shape.t) \div 8
    IN  <<l, t, l + (f.px * shape.w) \div 8, t + (f.px * shape.h) \div 8>>

text_x(sz, bb) == (sz - (bb[3] - bb[1])) \div 2
text_y(sz, bb) == (sz - (bb[4] - bb[2])) \div 2 - Scaled(10, sz)

InBox(x, y, box) == box[1] <= x /\ x <= box[3] /\ box[2] <= y /\ y <= box[4]

OnBorder(x, y, box) == x = box[1] \/ x = box[3] \/ y = box[2] \/ y = box[4]

(* The colour an operation gives a pixel it covers.  Every pixel of a      *)
(* glyph's ink box counts as inked.                                        *)
OpColor(op, x, y) ==
    IF op.kind = "rect" /\ op.outline # NoColor /\ OnBorder(x, y, op.box)
    THEN op.outline ELSE op.fill

RECURSIVE ColorAfter(_, _, _, _)
ColorAfter(ops, n, x, y) ==
    IF n = 0 THEN BACKGROUND
    ELSE IF InBox(x, y, ops[n].box) THEN OpColor(ops[n], x, y)
    ELSE ColorAfter(ops, n - 1, x, y)

(* img.getpixel((x, y)) *)
PixelAt(image, x, y) == ColorAfter(image.ops, Len(image.ops), x, y)

----------------------------------------------------------------------------
(* create_receipt_icon(size), one action per statement group *)

(* The call create_receipt_icon(sz): a fresh frame starts at the first statement. *)
CallRender(sz) ==
    /\ rpc = "idle"
    /\ size' = sz
    /\ rpc' = "new"
    /\ UNCHANGED <<img, i, font, bbox, text_xy>>

(* img = Image.new(...); draw = ImageDraw.Draw(img) *)
R_New ==
    /\ rpc = "new"
    /\ img' = NewImage(size)
    /\ rpc' = "paper"
    /\ UNCHANGED <<pc, size, i, font, bbox, text_xy, icons, fsys, stdout, err,
                   env, glyph, history, harness>>

(* draw.rectangle([paper_margin, paper_y, ...], fill=white, outline=grey) *)
R_Paper ==
    /\ rpc = "paper"
    /\ img' = Draw(img, RectOp(PaperBox(size), PAPER_FILL, PAPER_BORDER))
    /\ i' = 0
    /\ rpc' = "lines"
    /\ UNCHANGED <<pc, size, font, bbox, text_xy, icons, fsys, stdout, err,
                   env, glyph, history, harness>>

(* Where the line loop goes at index k: on to the button once range(6) is  *)
(* exhausted or the break is taken, otherwise round the loop again.        *)
AfterLine(sz, k) ==
    IF k >= NUM_LINES \/ StopCondition(sz, k) THEN "button" ELSE "lines"

(* One iteration of: for i in range(6) *)
R_Line ==
    /\ rpc = "lines"
    /\ rpc' = AfterLine(size, i)
    /\ IF AfterLine(size, i) = "lines"
       THEN /\ img' = Draw(img, RectOp(LineBox(size, i), LINE_FILL, NoColor))
            /\ i' = i + 1
       ELSE UNCHANGED <<img, i>>
    /\ UNCHANGED <<pc, size, font, bbox, text_xy, icons, fsys, stdout, err,
                   env, glyph, history, harness>>

(* draw.rectangle([button_x, button_y, ...], fill=blue, outline=None) *)
R_Button ==
    /\ rpc = "button"
    /\ img' = Draw(img, RectOp(ButtonBox(size), BUTTON_FILL, NoColor))
    /\ rpc' = "load_font"
    /\ UNCHANGED <<pc, size, i, font, bbox, text_xy, icons, fsys, stdout, err,
                   env, glyph, history, harness>>

(* The outcomes ImageFont.truetype("arial.ttf", px) can have: it fails     *)
(* when the font is not installed; a pixel size of 0 is refused by some    *)
(* versions of the library and accepted by others.                         *)
FontLoads(e, px) ==
    IF ~e.fontInstalled THEN {FALSE}
    ELSE IF px = 0 THEN {TRUE, FALSE}
    ELSE {TRUE}

(* try: font = ImageFont.truetype(...)  except: font = ImageFont.load_default() *)
FontAfterLoad(loaded, px) == IF loaded THEN TrueTypeFont(px) ELSE DefaultFont

AfterFontLoad_Uncaught(loaded) == IF loaded THEN "textbbox" ELSE "raise"

(* Where control goes after the try/except around the font load. *)
AfterFontLoad(loaded) == "textbbox"

R_LoadFont ==
    /\ rpc = "load_font"
    /\ \E loaded \in FontLoads(env, font_size(size)) :
          /\ font' = FontAfterLoad(loaded, font_size(size))
          /\ rpc' = AfterFontLoad(loaded)
    /\ UNCHANGED <<pc, size, img, i, bbox, text_xy, icons, fsys, stdout, err,
                   env, glyph, history, harness>>

(* bbox = draw.textbbox(...); text_x = ...; text_y = ... *)
R_TextBBox ==
    /\ rpc = "textbbox"
    /\ bbox' = TextBBox(font, glyph)
    /\ text_xy' = <<text_x(size, bbox'), text_y(size, bbox')>>
    /\ rpc' = "shadow"
    /\ UNCHANGED <<pc, size, img, i, font, icons, fsys, stdout, err,
                   env, glyph, history, harness>>

(* draw.text((text_x + 2, text_y + 2), text, fill=(0, 0, 0, 100), font=font) *)
R_Shadow ==
    /\ rpc = "shadow"
    /\ img' = Draw(img, TextOp(<<text_xy[1] + SHADOW_OFFSET, text_xy[2] + SHADOW_OFFSET>>,
                               bbox, SHADOW_FILL, font))
    /\ rpc' = "text"
    /\ UNCHANGED <<pc, size, i, font, bbox, text_xy, icons, fsys, stdout, err,
                   env, glyph, history, harness>>

(* draw.text((text_x, text_y), text, fill=(0, 122, 255, 255), font=font) *)
R_Text ==
    /\ rpc = "text"
    /\ img' = Draw(img, TextOp(text_xy, bbox, TEXT_FILL, font))
    /\ rpc' = "return"
    /\ UNCHANGED <<pc, size, i, font, bbox, text_xy, icons, fsys, stdout, err,
                   env, glyph, history, harness>>

(* return img: the value handed to the caller; the frame is left. *)
ReturnValue == img

RenderStep ==
    \/ R_New \/ R_Paper \/ R_Line \/ R_Button
    \/ R_LoadFont \/ R_TextBBox \/ R_Shadow \/ R_Text

----------------------------------------------------------------------------
(* The environment *)

Envs == [canCreate : BOOLEAN, canWrite : BOOLEAN, fontInstalled : BOOLEAN]

NoFile    == [format |-> "none", mode |-> "none", w |-> 0, h |-> 0, pixels |-> <<>>]
StaleFile == [format |-> "PNG", mode |-> "RGBA", w |-> 64, h |-> 64, pixels |-> <<>>]
Truncated == [format |-> "truncated", mode |-> "none", w |-> 0, h |-> 0, pixels |-> <<>>]

(* The states public, public/icons and the two files can be in before a run. *)
Filesystems ==
    { f \in [public : {"absent", "dir"}, icons : {"absent", "dir", "file"},
             f192 : {NoFile, StaleFile}, f512 : {NoFile, StaleFile}] :
        /\ f.public = "absent" => f.icons = "absent"
        /\ f.icons # "dir" => (f.f192 = NoFile /\ f.f512 = NoFile) }

CurrentFs == [public |-> publicDir, icons |-> iconsDir, f192 |-> file192, f512 |-> file512]

----------------------------------------------------------------------------
(* The module-level driver *)

Makedirs_NoExistOk(pub, dir, e) ==
    IF dir # "absent" THEN [public |-> pub, icons |-> dir, err |-> "FileExistsError"]
    ELSE IF e.canCreate THEN [public |-> "dir", icons |-> "dir", err |-> "none"]
    ELSE [public |-> pub, icons |-> dir, err |-> "PermissionError"]

(* os.makedirs('public/icons', exist_ok=True): an existing directory is    *)
(* accepted, a missing one is created with its parent, a file at the path  *)
(* raises FileExistsError, and a failure to create raises PermissionError. *)
Makedirs(pub, dir, e) ==
    IF dir = "dir" THEN [public |-> pub, icons |-> dir, err |-> "none"]
    ELSE IF dir = "file" THEN [public |-> pub, icons |-> dir, err |-> "FileExistsError"]
    ELSE IF e.canCreate THEN [public |-> "dir", icons |-> "dir", err |-> "none"]
    ELSE [public |-> pub, icons |-> dir, err |-> "PermissionError"]

(* The PNG encoding of an image, as Image.save(path, 'PNG') writes it. *)
EncodePNG(image) ==
    [format |-> "PNG", mode |-> image.mode, w |-> image.w, h |-> image.h,
     pixels |-> image.ops]

(* The image each save statement writes: icon_192.save(...), icon_512.save(...) *)
Saved192 == icon_192

Saved512_CopyPaste == icon_192

Saved512 == icon_512

(* Whether Image.save can write into public/icons. *)
SaveSucceeds(dir, e) == dir = "dir" /\ e.canWrite

(* What a failed save leaves at the path: the file as it was when it could *)
(* not be opened, a truncated file when writing stopped part-way.          *)
FailedWrite(old) == {old, Truncated}

AfterStep_Swallowed(ok, nxt) == nxt

(* An uncaught exception ends the process; otherwise the next statement runs. *)
AfterStep(ok, nxt) == IF ok THEN nxt ELSE "aborted"

RunRecord(status, out, fs) ==
    [status |-> status, out |-> out, was |-> start, fs |-> fs]

D_Makedirs ==
    /\ pc = "makedirs"
    /\ LET r == Makedirs(publicDir, iconsDir, env)
       IN  /\ publicDir' = r.public
           /\ iconsDir' = r.icons
           /\ err' = r.err
           /\ pc' = AfterStep(r.err = "none", "call192")
           /\ runs' = IF pc' = "aborted"
                      THEN Append(runs, RunRecord(r.err, stdout,
                                 [CurrentFs EXCEPT !.public = r.public, !.icons = r.icons]))
                      ELSE runs
    /\ log' = Append(log, "makedirs")
    /\ UNCHANGED <<rpc, locals, icons, file192, file512, stdout, env, glyph,
                   run, start, harness>>

(* icon_192 = create_receipt_icon(192): the call *)
D_Call192 ==
    /\ pc = "call192"
    /\ CallRender(SIZE_SMALL)
    /\ pc' = "in192"
    /\ log' = Append(log, "render192")
    /\ UNCHANGED <<icons, fsys, stdout, err, env, glyph, run, runs, start, harness>>

(* icon_192 = create_receipt_icon(192): the assignment of the result *)
D_Ret192 ==
    /\ pc = "in192"
    /\ rpc = "return"
    /\ icon_192' = ReturnValue
    /\ rpc' = "idle"
    /\ pc' = "save192"
    /\ UNCHANGED <<locals, icon_512, fsys, stdout, err, env, glyph, history, harness>>

(* icon_192.save('public/icons/icon-192.png', 'PNG') *)
D_Save192 ==
    /\ pc = "save192"
    /\ pc' = AfterStep(SaveSucceeds(iconsDir, env), "call512")
    /\ IF SaveSucceeds(iconsDir, env)
       THEN /\ file192' = EncodePNG(Saved192)
            /\ UNCHANGED <<err, runs>>
       ELSE /\ file192' \in FailedWrite(file192)
            /\ err' = "OSError"
            /\ runs' = IF pc' = "aborted"
                       THEN Append(runs, RunRecord("OSError", stdout,
                                                   [CurrentFs EXCEPT !.f192 = file192']))
                       ELSE runs
    /\ log' = Append(log, "save192")
    /\ UNCHANGED <<rpc, locals, icons, publicDir, iconsDir, file512, stdout,
                   env, glyph, run, start, harness>>

(* icon_512 = create_receipt_icon(512): the call *)
D_Call512 ==
    /\ pc = "call512"
    /\ CallRender(SIZE_LARGE)
    /\ pc' = "in512"
    /\ log' = Append(log, "render512")
    /\ UNCHANGED <<icons, fsys, stdout, err, env, glyph, run, runs, start, harness>>

(* icon_512 = create_receipt_icon(512): the assignment of the result *)
D_Ret512 ==
    /\ pc = "in512"
    /\ rpc = "return"
    /\ icon_512' = ReturnValue
    /\ rpc' = "idle"
    /\ pc' = "save512"
    /\ UNCHANGED <<locals, icon_192, fsys, stdout, err, env, glyph, history, harness>>

(* icon_512.save('public/icons/icon-512.png', 'PNG') *)
D_Save512 ==
    /\ pc = "save512"
    /\ pc' = AfterStep(SaveSucceeds(iconsDir, env), "print")
    /\ IF SaveSucceeds(iconsDir, env)
       THEN /\ file512' = EncodePNG(Saved512)
            /\ UNCHANGED <<err, runs>>
       ELSE /\ file512' \in FailedWrite(file512)
            /\ err' = "OSError"
            /\ runs' = IF pc' = "aborted"
                       THEN Append(runs, RunRecord("OSError", stdout,
                                                   [CurrentFs EXCEPT !.f512 = file512']))
                       ELSE runs
    /\ log' = Append(log, "save512")
    /\ UNCHANGED <<rpc, locals, icons, publicDir, iconsDir, file192, stdout,
                   env, glyph, run, start, harness>>

(* print("Icons created successfully!"), then the script ends with status 0 *)
D_Print ==
    /\ pc = "print"
    /\ stdout' = Append(stdout, COMPLETION_MESSAGE)
    /\ pc' = "exited"
    /\ log' = Append(log, "print")
    /\ runs' = Append(runs, RunRecord("none", stdout', CurrentFs))
    /\ UNCHANGED <<rpc, locals, icons, fsys, err, env, glyph, run, start, harness>>

(* The script is executed again after it ran to completion: a new process *)
(* on the filesystem the last one left.                                    *)
Rerun ==
    /\ pc = "exited"
    /\ run < MaxRuns
    /\ run' = run + 1
    /\ pc' = "makedirs"
    /\ rpc' = "idle"
    /\ size' = 0 /\ img' = NoImage /\ i' = 0 /\ font' = NoFont
    /\ bbox' = NoBox /\ text_xy' = <<0, 0>>
    /\ icon_192' = NoImage /\ icon_512' = NoImage
    /\ stdout' = <<>>
    /\ err' = "none"
    /\ log' = <<>>
    /\ start' = CurrentFs
    /\ UNCHANGED <<fsys, env, glyph, runs, harness>>

(* The environment changes while the script runs: the disk fills up,       *)
(* permissions change, a font is installed or removed.  The script reads   *)
(* the environment in makedirs, in the font load and in the two saves, so  *)
(* a change is taken just before one of these.                             *)
EnvChange ==
    /\ \/ pc \in {"makedirs", "save192", "save512"}
       \/ pc \in {"in192", "in512"} /\ rpc = "load_font"
    /\ env' \in Envs \ {env}
    /\ UNCHANGED <<pc, rpc, locals, icons, fsys, stdout, err, glyph, history, harness>>

Init ==
    /\ pc = "makedirs"
    /\ rpc = "idle"
    /\ size = 0 /\ img = NoImage /\ i = 0 /\ font = NoFont
    /\ bbox = NoBox /\ text_xy = <<0, 0>>
    /\ icon_192 = NoImage /\ icon_512 = NoImage
    /\ \E f \in Filesystems :
          /\ publicDir = f.public /\ iconsDir = f.icons
          /\ file192 = f.f192 /\ file512 = f.f512
          /\ start = f
    /\ stdout = <<>>
    /\ err = "none"
    /\ env \in Envs
    /\ glyph \in GlyphShapes
    /\ run = 1
    /\ log = <<>>
    /\ runs = <<>>
    /\ arg = 0 /\ first = NoImage /\ second = NoImage

Next ==
    \/ D_Makedirs \/ D_Call192 \/ D_Ret192 \/ D_Save192
    \/ D_Call512 \/ D_Ret512 \/ D_Save512 \/ D_Print
    \/ RenderStep
    \/ Rerun \/ EnvChange

Spec == Init /\ [][Next]_vars

----------------------------------------------------------------------------
(* create_receipt_icon applied twice to each size 1..MaxSize *)

T_Call1 ==
    /\ pc = "t_call1"
    /\ CallRender(arg)
    /\ pc' = "t_in1"
    /\ UNCHANGED <<icons, fsys, stdout, err, env, glyph, history, harness>>

T_Ret1 ==
    /\ pc = "t_in1"
    /\ rpc = "return"
    /\ first' = ReturnValue
    /\ rpc' = "idle"
    /\ pc' = "t_call2"
    /\ UNCHANGED <<locals, icons, fsys, stdout, err, env, glyph, history, arg, second>>

T_Call2 ==
    /\ pc = "t_call2"
    /\ CallRender(arg)
    /\ pc' = "t_in2"
    /\ \E inst \in BOOLEAN : env' = [env EXCEPT !.fontInstalled = inst]
    /\ UNCHANGED <<icons, fsys, stdout, err, glyph, history, harness>>

T_Ret2 ==
    /\ pc = "t_in2"
    /\ rpc = "return"
    /\ second' = ReturnValue
    /\ rpc' = "idle"
    /\ pc' = "t_done"
    /\ UNCHANGED <<locals, icons, fsys, stdout, err, env, glyph, history, arg, first>>

InitRender ==
    /\ pc = "t_call1"
    /\ rpc = "idle"
    /\ size = 0 /\ img = NoImage /\ i = 0 /\ font = NoFont
    /\ bbox = NoBox /\ text_xy = <<0, 0>>
    /\ icon_192 = NoImage /\ icon_512 = NoImage
    /\ publicDir = "absent" /\ iconsDir = "absent"
    /\ file192 = NoFile /\ file512 = NoFile
    /\ start = [public |-> "absent", icons |-> "absent", f192 |-> NoFile, f512 |-> NoFile]
    /\ stdout = <<>>
    /\ err = "none"
    /\ \E inst \in BOOLEAN :
          env = [canCreate |-> TRUE, canWrite |-> TRUE, fontInstalled |-> inst]
    /\ glyph \in GlyphShapes
    /\ run = 1
    /\ log = <<>>
    /\ runs = <<>>
    /\ arg \in 1..MaxSize
    /\ first = NoImage /\ second = NoImage

NextRender == T_Call1 \/ T_Ret1 \/ T_Call2 \/ T_Ret2 \/ RenderStep

SpecRender == InitRender /\ [][NextRender]_vars

----------------------------------------------------------------------------
(* Properties *)

Corners(n) == {<<0, 0>>, <<n - 1, 0>>, <<0, n - 1>>, <<n - 1, n - 1>>}

BoxWidth(box)  == box[3] - box[1]
BoxHeight(box) == box[4] - box[2]

BoxInside(inner, outer) ==
    /\ outer[1] <= inner[1] /\ inner[3] <= outer[3]
    /\ outer[2] <= inner[2] /\ inner[4] <= outer[4]
    /\ inner[1] <= inner[3] /\ inner[2] <= inner[4]

(* a/b rounded to the nearest integer, for a >= 0 and b > 0 *)
RoundDiv(a, b) == (2 * a + b) \div (2 * b)

(* The positions in an image's operations of the receipt lines: the        *)
(* rectangles drawn after the paper and before the button.                 *)
LinePositions(image) ==
    { k \in 2..Len(image.ops) :
        /\ image.ops[k].kind = "rect"
        /\ image.ops[k].fill = LINE_FILL
        /\ image.ops[k].outline = NoColor }

PaperDrawn == rpc \in {"lines", "button", "load_font", "textbbox", "shadow", "text", "return"}
LinesDone  == rpc \in {"button", "load_font", "textbbox", "shadow", "text", "return"}

StepOrder == <<"makedirs", "render192", "save192", "render512", "save512", "print">>

(* C1: a run of the driver that completes on a filesystem without          *)
(* public/icons leaves the directory present, icon-192.png holding the     *)
(* 192 x 192 render and icon-512.png holding the 512 x 512 render, neither *)
(* holding the other's.                                                    *)
C1_FreshRunWritesBothIcons ==
    (pc = "exited" /\ start.icons = "absent") =>
        /\ publicDir = "dir" /\ iconsDir = "dir"
        /\ file192 = EncodePNG(icon_192)
        /\ file192.format = "PNG" /\ file192.mode = "RGBA"
        /\ file192.w = 192 /\ file192.h = 192
        /\ Len(file192.pixels) = 10
        /\ file192.pixels[1].box = <<24, 10, 168, 182>>
        /\ file512 = EncodePNG(icon_512)
        /\ file512.format = "PNG" /\ file512.mode = "RGBA"
        /\ file512.w = 512 /\ file512.h = 512
        /\ Len(file512.pixels) = 10
        /\ file512.pixels[1].box = <<64, 26, 448, 486>>

C1_Witness ==
    /\ pc = "exited" /\ run = 1 /\ start.icons = "absent" /\ start.public = "absent"
    /\ file192.w = 192 /\ file512.w = 512

(* C2: a failure of makedirs or of a save ends the run at that step: the   *)
(* steps attempted are an initial part of the driver's sequence, each at   *)
(* most once, the failed step is the last one attempted, and the message   *)
(* is printed only when the directory exists and both files were written.  *)
C2_FailureAbortsTheRun ==
    /\ Len(log) <= Len(StepOrder) /\ log = SubSeq(StepOrder, 1, Len(log))
    /\ err # "none" <=> pc = "aborted"
    /\ pc = "aborted" =>
          /\ log # <<>>
          /\ log[Len(log)] \in {"makedirs", "save192", "save512"}
          /\ rpc = "idle"
          /\ stdout = <<>>
          /\ ~ ENABLED (D_Makedirs \/ D_Call192 \/ D_Ret192 \/ D_Save192 \/ D_Call512
                        \/ D_Ret512 \/ D_Save512 \/ D_Print \/ RenderStep)
    /\ stdout # <<>> =>
          /\ stdout = <<COMPLETION_MESSAGE>>
          /\ log = StepOrder
          /\ iconsDir = "dir"
          /\ file192 = EncodePNG(icon_192)
          /\ file512 = EncodePNG(icon_512)

C2_Witness ==
    /\ pc = "aborted" /\ err = "OSError" /\ log = SubSeq(StepOrder, 1, 5)
    /\ file192.w = 192 /\ file512 = Truncated

(* C3: for every size, a failed load of arial.ttf is not an error: the     *)
(* render goes on with the default font, measures the glyph with it, draws *)
(* the shadow and the glyph with it and returns its image to the caller,   *)
(* exactly as after a successful load.                                     *)
C3_FontFailureFallsBack ==
    /\ rpc \in {"idle", "new", "paper", "lines", "button", "load_font",
                "textbbox", "shadow", "text", "return"}
    /\ err = "none"
    /\ rpc \in {"textbbox", "shadow", "text", "return"} =>
          /\ font.kind \in {"truetype", "default"}
          /\ ~env.fontInstalled => font = [kind |-> "default", px |-> 10]
    /\ rpc \in {"shadow", "text", "return"} =>
          bbox = TextBBox(font, glyph)
    /\ rpc = "return" =>
          LET n == Len(img.ops)
          IN  /\ n = 2 + Cardinality(LinePositions(img)) + 2
              /\ img.ops[n - 1].kind = "text" /\ img.ops[n - 1].font = font
              /\ img.ops[n - 1].fill = <<0, 0, 0, 100>>
              /\ img.ops[n].kind = "text" /\ img.ops[n].font = font
              /\ img.ops[n].fill = <<0, 122, 255, 255>>
              /\ img.ops[n - 1].at = <<img.ops[n].at[1] + 2, img.ops[n].at[2] + 2>>
    /\ pc = "t_call2" => (first.w = arg /\ Len(first.ops) = Len(img.ops))
    /\ pc = "t_done" => (second.w = arg /\ Len(second.ops) = Len(first.ops))

C3_Witness ==
    /\ pc = "t_done" /\ arg = 192
    /\ first.ops[Len(first.ops)].font.kind = "truetype"
    /\ second.ops[Len(second.ops)].font.kind = "default"
    /\ ~env.fontInstalled

(* C4 as stated: for every positive size the four corner pixels of the     *)
(* returned image are the background colour.                               *)
C4_CornersAnySize ==
    rpc = "return" =>
        \A c \in Corners(size) : PixelAt(img, c[1], c[2]) = <<26, 26, 30, 255>>

(* C4 amended: for every size of at least 16 the four corner pixels of the *)
(* returned image are the background colour, the paper rectangle lying     *)
(* strictly between the first and the last column of the canvas.           *)
C4_CornersFromSize16 ==
    (rpc = "return" /\ size >= 16) =>
        /\ \A c \in Corners(size) : PixelAt(img, c[1], c[2]) = <<26, 26, 30, 255>>
        /\ img.ops[1].box[1] >= 1
        /\ img.ops[1].box[3] <= size - 2

C4_Witness ==
    /\ rpc = "return" /\ size = 16
    /\ img.ops[1].box = <<2, 1, 14, 15>>
    /\ font.kind = "default"

(* C5 as stated: for the sizes 192 and 512 the paper is                    *)
(* size - 2*round(24*size/192) wide and round(width*1.2) high.             *)
C5_PaperHeightRounded ==
    (PaperDrawn /\ size \in {192, 512}) =>
        /\ BoxWidth(img.ops[1].box) = size - 2 * RoundDiv(24 * size, 192)
        /\ BoxHeight(img.ops[1].box) = RoundDiv(6 * BoxWidth(img.ops[1].box), 5)

(* C5 amended: for the sizes 192 and 512 the paper is                      *)
(* size - 2*round(24*size/192) wide and width*1.2 truncated to an integer  *)
(* high (172 and 460).                                                     *)
C5_PaperHeightTruncated ==
    (PaperDrawn /\ size \in {192, 512}) =>
        /\ BoxWidth(img.ops[1].box) = size - 2 * RoundDiv(24 * size, 192)
        /\ BoxHeight(img.ops[1].box) = (6 * BoxWidth(img.ops[1].box)) \div 5
        /\ BoxHeight(img.ops[1].box) = (IF size = 192 THEN 172 ELSE 460)

C5_Witness ==
    /\ PaperDrawn /\ size = 512
    /\ BoxWidth(img.ops[1].box) = 384 /\ BoxHeight(img.ops[1].box) = 460

C7_LinesInsidePaper ==
    PaperDrawn =>
        LET paper  == img.ops[1].box
            nLines == Cardinality(LinePositions(img))
            stop(k) == (paper[2] + (20 * size) \div 192 + k * ((16 * size) \div 192))
                         > paper[4] - (40 * size) \div 192
        IN  /\ LinePositions(img) = 2..(1 + nLines)
            /\ \A p \in LinePositions(img) :
                  /\ BoxInside(img.ops[p].box, paper)
                  /\ img.ops[p].box[2] = paper[2] + (20 * size) \div 192
                                           + (p - 2) * ((16 * size) \div 192)
                  /\ img.ops[p].box[4] = img.ops[p].box[2] + (2 * size) \div 192
                  /\ img.ops[p].box[1] = paper[1] + (12 * size) \div 192
            /\ \A k \in 0..5 : stop(k) => nLines <= k
            /\ nLines <= 6

C7_Witness ==
    /\ rpc = "button" /\ size = 40
    /\ Cardinality(LinePositions(img)) = 6
    /\ img.ops[7].box = <<7, 21, 33, 21>>
    /\ img.ops[1].box = <<5, 2, 35, 38>>

(* C8: two calls of create_receipt_icon with the same size and the same    *)
(* outcome of the font load return identical images: the same operations   *)
(* with the same coordinates, colours and fonts, in the same order.        *)
C8_SameInputSameImage ==
    (pc = "t_done"
       /\ first.ops[Len(first.ops)].font.kind = second.ops[Len(second.ops)].font.kind)
    => (first = second /\ first.w = arg /\ Len(first.ops) >= 4)

C8_Witness ==
    /\ pc = "t_done" /\ arg = 512 /\ first = second
    /\ first.ops[Len(first.ops)].font = [kind |-> "truetype", px |-> 128]

(* C9: makedirs leaves public/icons present and raises nothing when the    *)
(* directory already exists (and when it is absent and can be created);    *)
(* an execution that follows a completed one never fails in makedirs,      *)
(* fails only where the environment refuses a write, and on completing     *)
(* leaves the directory and both files as the first left them, the files   *)
(* identical whenever their glyphs were drawn with the same font.          *)
C9_MakedirsIdempotentRerunSame ==
    LET fontOf(f) == f.pixels[Len(f.pixels)].font
        same(a, b) ==
            /\ a.format = b.format /\ a.mode = b.mode /\ a.w = b.w /\ a.h = b.h
            /\ Len(a.pixels) = Len(b.pixels)
            /\ SubSeq(a.pixels, 1, Len(a.pixels) - 2) = SubSeq(b.pixels, 1, Len(b.pixels) - 2)
            /\ fontOf(a) = fontOf(b) => a = b
    IN  /\ pc \notin {"makedirs", "aborted"} => (publicDir = "dir" /\ iconsDir = "dir")
        /\ (pc = "aborted" /\ log = <<"makedirs">>) =>
              \/ start.icons = "file" /\ err = "FileExistsError"
              \/ start.icons = "absent" /\ err = "PermissionError" /\ ~env.canCreate
        /\ (log # <<>> /\ start.icons = "dir") =>
              (iconsDir = "dir" /\ (pc = "aborted" => log # <<"makedirs">>))
        /\ run >= 2 =>
              /\ start.icons = "dir" /\ start = runs[run - 1].fs
              /\ runs[run - 1].status = "none"
              /\ pc = "aborted" =>
                    (err = "OSError" /\ ~env.canWrite /\ Len(log) >= 3)
              /\ pc = "exited" =>
                    /\ publicDir = runs[1].fs.public /\ iconsDir = runs[1].fs.icons
                    /\ same(file192, runs[1].fs.f192)
                    /\ same(file512, runs[1].fs.f512)

C9_Witness ==
    /\ pc = "exited" /\ run = 2 /\ Len(runs) = 2
    /\ runs[1].was.icons = "absent"
    /\ runs[2].fs = runs[1].fs
    /\ file192.w = 192 /\ file512.w = 512

(* C10: for every size the stop condition of the line loop is false at     *)
(* each of the six indices 0..5, so the break is never taken and exactly   *)
(* six receipt lines are drawn.                                            *)
C10_SixLinesAlways ==
    /\ (rpc = "lines" /\ i < 6) =>
          /\ ~StopCondition(size, i)
          /\ Cardinality(LinePositions(img)) = i
    /\ LinesDone =>
          /\ i = 6
          /\ Cardinality(LinePositions(img)) = 6
          /\ \A k \in 0..5 :
                img.ops[2 + k].box[2] <= img.ops[1].box[4] - (40 * size) \div 192

C10_Witness ==
    /\ rpc = "button" /\ size = 1 /\ i = 6
    /\ Cardinality(LinePositions(img)) = 6

====
